---- MODULE Spec2Model ----
(***************************************************************************)
(* Vypertron-Snake (Bevy plugin): the session state machine of             *)
(* src/states/mod.rs, the input systems of src/systems/input.rs, the snake *)
(* movement and growth systems of src/systems/snake.rs and the collision   *)
(* systems of src/systems/collision.rs, composed per frame the way         *)
(* GamePlugin::build (src/game_plugin.rs) schedules them.                  *)
(*                                                                         *)
(* Time is counted in tenths of a second, speeds in thousandths of a move  *)
(* per second, grid positions are <<x, y>> pairs and directions are the    *)
(* unit vectors <<dx, dy>>.                                                *)
(***************************************************************************)
EXTENDS Integers, Sequences, FiniteSets, TLC

VARIABLES
    gameState,        \* State<GameState>
    pauseState,       \* State<PauseState>
    nextGame,         \* NextState<GameState>: "Unchanged" or the pending state
    nextPause,        \* NextState<PauseState>
    previous_state,   \* PreviousGameState.state: "None" or a GameState
    progression,      \* GameProgression
    state_events,     \* Events<StateTransitionEvent> not yet read by the handler
    pc,               \* which of the Update systems of the frame have run
    level_def,        \* the LevelDefinition of LevelManager.current_level
    walls,            \* the Wall entities
    foods,            \* the Food entities, in query order
    snake,            \* the Snake entity (head): Snake and GridPosition
    segments,         \* the body SnakeSegment entities, in query order
    input_buffer,     \* InputBuffer
    input_validation, \* InputValidation
    score_resource,   \* ScoreResource.current_score
    snake_death_events, \* the SnakeDeathEvent causes sent so far
    last_tick_direction, \* history: the direction the latest movement tick used
    main_loop         \* the locals of main() in main.rs: snake, food, score, ...

stateVars == <<gameState, pauseState, nextGame, nextPause, previous_state,
               progression, state_events>>

worldVars == <<level_def, walls, foods, snake, segments, input_buffer,
               input_validation, score_resource, snake_death_events,
               last_tick_direction, main_loop>>

vars == <<gameState, pauseState, nextGame, nextPause, previous_state,
          progression, state_events, pc, level_def, walls, foods, snake,
          segments, input_buffer, input_validation, score_resource,
          snake_death_events, last_tick_direction, main_loop>>

----------------------------------------------------------------------------
(* Bounds of the model *)

MaxScore == 1
\* frames are taken while the snake's speed, in thousandths of a move per
\* second, is at most MaxSpeed
MaxSpeed == 9000
GridWidth == 5
GridHeight == 3
\* the grid of grid.rs, 40 by 30 in the program
GRID_WIDTH == 3
GRID_HEIGHT == 2

(* Program constants; times are in tenths of a second *)

TotalLevels == 10
MaxBufferSize == 3
BufferDuration == 2
MinInputInterval == 1
\* Snake::move_delay, in hundredths of a second
MoveDelay == 15

\* the frame times time.delta_seconds() takes, in tenths of a second
Deltas == {0, 2, 4}

----------------------------------------------------------------------------
(* src/states/mod.rs *)

GameStates == {"HomeScreen", "CharacterSelect", "Playing", "Paused", "GameOver",
               "LevelComplete", "Cutscene", "Settings", "Loading", "Credits"}

PauseStates == {"Unpaused", "Paused"}

\* max() returning its argument whatever the stored value
Max_Second(a, b) == b

Max(a, b) == IF a >= b THEN a ELSE b

Scores == 0..MaxScore

EventLevels == {1, TotalLevels, TotalLevels + 1}

EventCharacters == {1}

Ev(t, a, b) == [type |-> t, a |-> a, b |-> b]

StateTransitionEvent ==
    {Ev(t, 0, 0) : t \in {"ToHomeScreen", "ToCharacterSelect", "PauseGame",
                          "ResumeGame", "StartCutscene", "EndCutscene",
                          "ToSettings", "FromSettings", "ToCredits",
                          "RestartLevel", "QuitToMenu"}}
    \cup {Ev("StartGame", c, l) : c \in EventCharacters, l \in EventLevels}
    \cup {Ev("GameOver", s, 0) : s \in Scores}
    \cup {Ev("LevelComplete", s, l) : s \in Scores, l \in EventLevels}

RECURSIVE SumScores(_, _)
SumScores(scores, n) ==
    IF n = 0 THEN 0 ELSE scores[n - 1] + SumScores(scores, n - 1)

GameProgressionDefault ==
    [current_level |-> 1, max_unlocked_level |-> 1, selected_character |-> 1,
     is_new_game |-> TRUE, total_score |-> 0,
     level_scores |-> [i \in 0..(TotalLevels - 1) |-> 0]]

\* RecordScore storing the new score without the max()
RecordScore_Overwrite(p, level, score) ==
    LET level_index == level - 1
    IN  IF level_index < TotalLevels
        THEN [p EXCEPT !.level_scores[level_index] = score]
        ELSE p

\* level_scores[level_index] = level_scores[level_index].max(score), guarded
\* by level_index < 10
RecordScore(p, level, score) ==
    LET level_index == level - 1
        scores == IF level_index < TotalLevels
                  THEN [p.level_scores EXCEPT
                            ![level_index] = Max(p.level_scores[level_index], score)]
                  ELSE p.level_scores
    IN  [p EXCEPT !.level_scores = scores]

\* WithTotal leaving total_score as it was
WithTotal_Stale(p) == p

\* progression.total_score = progression.level_scores.iter().sum()
WithTotal(p) == [p EXCEPT !.total_score = SumScores(p.level_scores, TotalLevels)]

\* One arm of the match in handle_state_transitions. h carries what the
\* handler writes: the two NextState resources, PreviousGameState and
\* GameProgression; cur is State<GameState>, which the handler only reads.
HandleEvent(h, e, cur) ==
    CASE e.type = "ToHomeScreen" ->
            [h EXCEPT !.game = "HomeScreen", !.pause = "Unpaused"]
      [] e.type = "ToCharacterSelect" ->
            [h EXCEPT !.prev = cur, !.game = "CharacterSelect"]
      [] e.type = "StartGame" ->
            [h EXCEPT !.prog = [h.prog EXCEPT !.selected_character = e.a,
                                              !.current_level = e.b,
                                              !.is_new_game = (e.b = 1)],
                      !.game = "Loading", !.pause = "Unpaused"]
      [] e.type = "PauseGame" -> [h EXCEPT !.pause = "Paused"]
      [] e.type = "ResumeGame" -> [h EXCEPT !.pause = "Unpaused"]
      [] e.type = "GameOver" ->
            [h EXCEPT !.prog = WithTotal(RecordScore(h.prog, h.prog.current_level, e.a)),
                      !.game = "GameOver", !.pause = "Unpaused"]
      [] e.type = "LevelComplete" ->
            [h EXCEPT !.prog = WithTotal(
                          [RecordScore(h.prog, e.b, e.a) EXCEPT
                              !.max_unlocked_level =
                                  Max(h.prog.max_unlocked_level, e.b + 1)]),
                      !.game = "LevelComplete"]
      [] e.type = "StartCutscene" ->
            [h EXCEPT !.prev = cur, !.game = "Cutscene"]
      [] e.type = "EndCutscene" ->
            [h EXCEPT !.game = IF h.prog.current_level > TotalLevels
                               THEN "Credits" ELSE "Playing"]
      [] e.type = "ToSettings" ->
            [h EXCEPT !.prev = cur, !.game = "Settings"]
      [] e.type = "FromSettings" ->
            [h EXCEPT !.game = IF h.prev /= "None" THEN h.prev ELSE "HomeScreen",
                      !.prev = "None"]
      [] e.type = "ToCredits" ->
            [h EXCEPT !.prev = cur, !.game = "Credits"]
      [] e.type = "RestartLevel" ->
            [h EXCEPT !.game = "Loading", !.pause = "Unpaused"]
      [] e.type = "QuitToMenu" ->
            [h EXCEPT !.prog = [h.prog EXCEPT !.is_new_game = TRUE],
                      !.game = "HomeScreen", !.pause = "Unpaused"]

\* for event in state_events.read() { match event { ... } }
RECURSIVE HandleAll(_, _, _)
HandleAll(h, events, cur) ==
    IF events = <<>> THEN h
    ELSE HandleAll(HandleEvent(h, Head(events), cur), Tail(events), cur)

\* The handler's writes after reading the events of batch, in order.
ReadEvents(batch) ==
    \E h \in {HandleAll([game |-> nextGame, pause |-> nextPause,
                          prev |-> previous_state, prog |-> progression],
                         batch, gameState)} :
        /\ nextGame' = h.game
        /\ nextPause' = h.pause
        /\ previous_state' = h.prev
        /\ progression' = h.prog

\* The system's run in a frame. It is added to Update on its own
\* (game_plugin.rs:55), unordered against the gameplay systems: it runs either
\* before them (pc "begin") or after them (pc "sys_first").
handle_state_transitions ==
    /\ \/ pc = "begin" /\ nextGame = "Unchanged" /\ nextPause = "Unchanged"
       \/ pc = "sys_first"
    /\ ReadEvents(state_events)
    /\ state_events' = <<>>
    /\ pc' = IF pc = "begin" THEN "hst_first" ELSE "begin"
    /\ UNCHANGED <<gameState, pauseState>>
    /\ UNCHANGED worldVars

\* The StateTransition schedule, run at the start of every frame: a pending
\* NextState becomes the current state.
ApplyStateTransitions ==
    /\ pc = "begin"
    /\ (nextGame /= "Unchanged" \/ nextPause /= "Unchanged")
    /\ gameState' = IF nextGame /= "Unchanged" THEN nextGame ELSE gameState
    /\ pauseState' = IF nextPause /= "Unchanged" THEN nextPause ELSE pauseState
    /\ nextGame' = "Unchanged"
    /\ nextPause' = "Unchanged"
    /\ UNCHANGED <<previous_state, progression, state_events, pc>>
    /\ UNCHANGED worldVars

----------------------------------------------------------------------------
(* src/systems/input.rs, src/systems/mod.rs: the events each input handler *)
(* can send in a given state.                                              *)

\* handle_global_input: pause key and back key
GlobalInputEvents(gs, ps) ==
    (IF gs = "Playing" /\ ps = "Unpaused" THEN {Ev("PauseGame", 0, 0)} ELSE {})
    \cup (IF gs = "Playing" /\ ps = "Paused"
          THEN {Ev("ResumeGame", 0, 0), Ev("QuitToMenu", 0, 0)} ELSE {})
    \cup (IF gs = "HomeScreen" THEN {Ev("ToCharacterSelect", 0, 0)} ELSE {})
    \cup (IF gs \in {"CharacterSelect", "Settings", "Credits"}
          THEN {Ev("ToHomeScreen", 0, 0)} ELSE {})

\* the state-specific arms of handle_input and the handlers they call
StateInputEvents(gs) ==
    CASE gs = "Paused" ->
            {Ev("ResumeGame", 0, 0), Ev("RestartLevel", 0, 0), Ev("QuitToMenu", 0, 0)}
      [] gs = "GameOver" -> {Ev("RestartLevel", 0, 0), Ev("QuitToMenu", 0, 0)}
      [] gs = "LevelComplete" ->
            {Ev("StartCutscene", 0, 0), Ev("RestartLevel", 0, 0), Ev("QuitToMenu", 0, 0)}
      [] gs = "Cutscene" -> {Ev("EndCutscene", 0, 0)}
      [] gs = "Settings" -> {Ev("FromSettings", 0, 0)}
      [] gs = "Credits" -> {Ev("ToHomeScreen", 0, 0)}
      [] OTHER -> {}

\* handle_home_screen_input: space bar and the three menu buttons
HomeScreenEvents(gs) ==
    IF gs = "HomeScreen"
    THEN {Ev("ToCharacterSelect", 0, 0), Ev("ToSettings", 0, 0), Ev("ToCredits", 0, 0)}
    ELSE {}

UserEvents(gs, ps) ==
    GlobalInputEvents(gs, ps) \cup StateInputEvents(gs) \cup HomeScreenEvents(gs)

\* a key press or click that one of the input handlers turns into an event,
\* read by handle_state_transitions before the next StateTransition schedule
UserInput ==
    /\ state_events = <<>>
    /\ \E e \in UserEvents(gameState, pauseState) : ReadEvents(<<e>>)
    /\ UNCHANGED <<gameState, pauseState, state_events, pc>>
    /\ UNCHANGED worldVars

\* an event written by any other holder of an EventWriter<StateTransitionEvent>
\* and read by handle_state_transitions; several of them may be read before
\* the next StateTransition schedule (the events of one frame)
SendEvent ==
    /\ state_events = <<>>
    /\ \E e \in StateTransitionEvent : ReadEvents(<<e>>)
    /\ UNCHANGED <<gameState, pauseState, state_events, pc>>
    /\ UNCHANGED worldVars

----------------------------------------------------------------------------
(* Vectors, levels and characters *)

Add(p, d) == <<p[1] + d[1], p[2] + d[2]>>

\* the squared length of a - b
Dist2(a, b) == (a[1] - b[1]) * (a[1] - b[1]) + (a[2] - b[2]) * (a[2] - b[2])

\* InputUtils::get_opposite_direction
get_opposite_direction(direction) == <<-direction[1], -direction[2]>>

\* InputUtils::is_valid_direction_change: (new - opposite).length() > 0.1,
\* which for vectors of integer coordinates is a non-zero difference
is_valid_direction_change(current, new) ==
    Dist2(new, get_opposite_direction(current)) > 0

\* the levels the model plays: level 1 (no special mechanic) and level 4
\* (Teleporters, Trail), both on a GridWidth x GridHeight grid; speeds are in
\* thousandths of a move per second
ModelLevels == {1, 4}

LevelDefinition(n) ==
    [level_number |-> n,
     starting_speed |-> CASE n = 1 -> 3000
                          [] n = 2 -> 3500
                          [] n = 4 -> 4500
                          [] n = 5 -> 5000,
     grid_size |-> <<GridWidth, GridHeight>>,
     special_mechanics |-> CASE n = 1 -> {}
                             [] n = 2 -> {"SpeedZones"}
                             [] n = 4 -> {"Teleporters", "Trail"}
                             [] n = 5 -> {"WallBreaking", "MultipleFoods"}]

\* CharacterSelection.characters[id - 1].special_ability
CharacterAbility(character_id) ==
    CASE character_id = 2 -> "SpeedBoost"
      [] character_id = 3 -> "WallBreaker"
      [] character_id = 4 -> "ScoreBooster"
      [] OTHER -> "None"

\* ScoreUtils::get_character_multiplier, in hundredths
get_character_multiplier(character_id) ==
    CASE character_id = 2 -> 90
      [] character_id = 3 -> 110
      [] character_id = 4 -> 150
      [] OTHER -> 100

\* ScoreUtils::calculate_food_score
calculate_food_score(food_type, level) ==
    (CASE food_type = "Normal" -> 10
       [] food_type = "Bonus" -> 25
       [] food_type = "Speed" -> 15
       [] food_type = "Golden" -> 100) * level

\* setup_level_boundaries: Boundary walls on the top and bottom rows and on the
\* left and right columns of the grid
BoundaryWalls(lv) ==
    LET grid_width == lv.grid_size[1]
        grid_height == lv.grid_size[2]
    IN  {[pos |-> <<x, y>>, wall_type |-> "Boundary"] :
             x \in 0..(grid_width - 1), y \in {grid_height - 1, 0}}
        \cup {[pos |-> <<x, y>>, wall_type |-> "Boundary"] :
             x \in {0, grid_width - 1}, y \in 1..(grid_height - 2)}

----------------------------------------------------------------------------
(* src/systems/snake.rs: spawning *)

\* the centre of the grid, as GridPosition::new(spawn_x as i32, spawn_y as i32)
SpawnPosition(lv) == <<lv.grid_size[1] \div 2, lv.grid_size[2] \div 2>>

\* the Snake and GridPosition components spawn_snake gives the head
SpawnedSnake(lv, character_id) ==
    [pos |-> SpawnPosition(lv),
     direction |-> <<1, 0>>,
     speed |-> lv.starting_speed,
     move_timer |-> 0,
     length |-> 3,
     is_alive |-> TRUE,
     character_id |-> character_id,
     level |-> lv.level_number,
     invincibility |-> FALSE]

\* spawn_initial_segments: for i in 1..length, a segment at (x - i, y)
spawn_initial_segments(head_position, length) ==
    [i \in 1..(length - 1) |->
        [segment_index |-> i, pos |-> <<head_position[1] - i, head_position[2]>>]]

----------------------------------------------------------------------------
(* The systems of a frame are functions of a world record w: the entities   *)
(* and resources they read and write, the events sent in the frame and the  *)
(* deferred Commands (new_segments, eaten, effects), applied after the last *)
(* system of the frame.                                                     *)

World ==
    [snake |-> snake, segments |-> segments, foods |-> foods,
     buf |-> input_buffer, val |-> input_validation, score |-> score_resource,
     deaths |-> snake_death_events, events |-> state_events,
     tick |-> last_tick_direction,
     growth |-> <<>>, new_segments |-> <<>>, eaten |-> {}, effects |-> {},
     expired |-> FALSE]

----------------------------------------------------------------------------
(* src/systems/input.rs *)

Keys == {"None", "Up", "Down", "Left", "Right", "Pause"}

\* InputUtils::arrow_keys_to_direction
arrow_keys_to_direction(key) ==
    CASE key = "Up" -> <<0, 1>>
      [] key = "Down" -> <<0, -1>>
      [] key = "Left" -> <<-1, 0>>
      [] key = "Right" -> <<1, 0>>
      [] OTHER -> "None"

\* handle_global_input: the pause key (the back key does nothing in Playing
\* while Unpaused)
handle_global_input(w, key, gs, ps) ==
    IF key = "Pause" /\ gs = "Playing"
    THEN [w EXCEPT !.events =
              Append(@, IF ps = "Unpaused" THEN Ev("PauseGame", 0, 0)
                                           ELSE Ev("ResumeGame", 0, 0))]
    ELSE IF key = "Pause" /\ gs = "HomeScreen"
    THEN [w EXCEPT !.events = Append(@, Ev("ToCharacterSelect", 0, 0))]
    ELSE w

\* add_direction_to_buffer without the comparison with the last entry
add_direction_to_buffer_NoCompare(direction, buffer) ==
    IF Len(buffer) + 1 > MaxBufferSize
    THEN Tail(Append(buffer, direction))
    ELSE Append(buffer, direction)

\* add_direction_to_buffer
add_direction_to_buffer(direction, buffer) ==
    IF buffer /= <<>> /\ Dist2(buffer[Len(buffer)], direction) = 0
    THEN buffer
    ELSE IF Len(buffer) + 1 > MaxBufferSize
         THEN Tail(Append(buffer, direction))
         ELSE Append(buffer, direction)

\* handle_gameplay_input; allow_rapid_input is false
handle_gameplay_input(w, key) ==
    LET direction == arrow_keys_to_direction(key)
    IN  IF direction = "None" THEN w
        ELSE IF ~(w.val.last_input_time >= MinInputInterval) THEN w
        ELSE IF w.val.last_direction /= "None"
                /\ ~is_valid_direction_change(w.val.last_direction, direction)
        THEN w
        ELSE [w EXCEPT
                !.buf.direction_buffer = add_direction_to_buffer(direction, @),
                !.val.last_direction = direction,
                !.val.last_input_time = 0]

\* update_input_buffer removing the newest entry instead of the oldest
update_input_buffer_DropNewest(w, dt) ==
    IF w.buf.buffer_timer + dt >= BufferDuration
    THEN [w EXCEPT !.buf.buffer_timer = 0,
                   !.buf.direction_buffer =
                       IF Len(@) > 1 THEN SubSeq(@, 1, Len(@) - 1) ELSE @]
    ELSE [w EXCEPT !.buf.buffer_timer = @ + dt]

\* update_input_buffer
update_input_buffer(w, dt) ==
    IF w.buf.buffer_timer + dt >= BufferDuration
    THEN [w EXCEPT !.buf.buffer_timer = 0,
                   !.buf.direction_buffer = IF Len(@) > 1 THEN Tail(@) ELSE @]
    ELSE [w EXCEPT !.buf.buffer_timer = @ + dt]

\* handle_input. last_input_time is only ever compared with
\* min_input_interval, so the model stops counting it there.
handle_input(w, key, dt, gs, ps) ==
    LET w1 == [w EXCEPT !.val.last_input_time =
                            IF @ + dt >= MinInputInterval
                            THEN MinInputInterval ELSE @ + dt]
        w2 == handle_global_input(w1, key, gs, ps)
        w3 == IF gs = "Playing" /\ ps = "Unpaused"
              THEN handle_gameplay_input(w2, key) ELSE w2
    IN  update_input_buffer(w3, dt)

\* consume_buffered_input without the write to snake.direction
consume_buffered_input_DropOnly(w) ==
    IF w.buf.direction_buffer /= <<>>
    THEN [w EXCEPT !.buf.direction_buffer = Tail(@)]
    ELSE w

\* consume_buffered_input
consume_buffered_input(w) ==
    IF w.buf.direction_buffer /= <<>>
    THEN [w EXCEPT !.snake.direction = w.buf.direction_buffer[1],
                   !.buf.direction_buffer = Tail(@)]
    ELSE w

\* handle_pause_input
handle_pause_input(w, key, gs, ps) ==
    IF gs = "Playing" /\ key = "Pause"
    THEN [w EXCEPT !.events =
              Append(@, IF ps = "Unpaused" THEN Ev("PauseGame", 0, 0)
                                           ELSE Ev("ResumeGame", 0, 0))]
    ELSE w

----------------------------------------------------------------------------
(* src/systems/snake.rs: movement and growth *)

\* insertion of e into a sequence sorted by segment_index, after its equals
RECURSIVE InsertByIndex(_, _)
InsertByIndex(sorted, e) ==
    IF sorted = <<>> THEN <<e>>
    ELSE IF Head(sorted).segment_index <= e.segment_index
         THEN <<Head(sorted)>> \o InsertByIndex(Tail(sorted), e)
         ELSE <<e>> \o sorted

\* sort_by_key(|(index, _)| *index), a stable sort
RECURSIVE SortByIndex(_)
SortByIndex(segs) ==
    IF segs = <<>> THEN <<>>
    ELSE InsertByIndex(SortByIndex(SubSeq(segs, 1, Len(segs) - 1)), segs[Len(segs)])

\* collect_segment_positions: the body segments' positions by segment index
collect_segment_positions(segs) ==
    LET sorted == SortByIndex(segs)
    IN  [k \in 1..Len(sorted) |-> sorted[k].pos]

\* update_snake_segments: position_chain = head_position ++ previous_positions
\* and segment i takes position_chain[i]
update_snake_segments(segs, previous_positions, head_position, snake_length) ==
    LET position_chain == <<head_position>> \o previous_positions
    IN  [k \in 1..Len(segs) |->
            IF segs[k].segment_index < Len(position_chain)
               /\ segs[k].segment_index < snake_length
            THEN [segs[k] EXCEPT !.pos = position_chain[segs[k].segment_index + 1]]
            ELSE segs[k]]

\* apply_character_movement_modifiers
apply_character_movement_modifiers(s) ==
    IF CharacterAbility(s.character_id) = "SpeedBoost"
    THEN [s EXCEPT !.speed = (@ * 12) \div 10]
    ELSE s

\* handle_teleporter_wrapping without the two branches for negative coordinates
handle_teleporter_wrapping_HighOnly(grid_pos, lv) ==
    LET grid_width == lv.grid_size[1]
        grid_height == lv.grid_size[2]
    IN  <<IF grid_pos[1] >= grid_width THEN 0 ELSE grid_pos[1],
          IF grid_pos[2] >= grid_height THEN 0 ELSE grid_pos[2]>>

\* handle_teleporter_wrapping
handle_teleporter_wrapping(grid_pos, lv) ==
    LET grid_width == lv.grid_size[1]
        grid_height == lv.grid_size[2]
    IN  <<IF grid_pos[1] < 0 THEN grid_width - 1
          ELSE IF grid_pos[1] >= grid_width THEN 0 ELSE grid_pos[1],
          IF grid_pos[2] < 0 THEN grid_height - 1
          ELSE IF grid_pos[2] >= grid_height THEN 0 ELSE grid_pos[2]>>

\* move_timer >= 1.0 / speed, with the timer in tenths of a second and the
\* speed in thousandths of a move per second
TimeToMove(move_timer, speed) == move_timer * speed >= 10 * 1000

\* move_snake
move_snake(w, dt) ==
    IF ~w.snake.is_alive THEN w
    ELSE IF ~TimeToMove(w.snake.move_timer + dt, w.snake.speed)
    THEN [w EXCEPT !.snake.move_timer = @ + dt]
    ELSE LET previous_positions == collect_segment_positions(w.segments)
             new_grid_pos == Add(w.snake.pos, w.snake.direction)
             moved == apply_character_movement_modifiers(
                          [w.snake EXCEPT !.move_timer = 0, !.pos = new_grid_pos])
         IN  [w EXCEPT
                !.snake = IF "Teleporters" \in level_def.special_mechanics
                          THEN [moved EXCEPT !.pos =
                                    handle_teleporter_wrapping(new_grid_pos, level_def)]
                          ELSE moved,
                !.segments = update_snake_segments(@, previous_positions,
                                                   new_grid_pos, w.snake.length),
                !.tick = w.snake.direction]

\* find_last_segment_position: the position of the last segment in query
\* order whose index is the largest below snake_length, Vec2::ZERO without one
RECURSIVE find_last_segment_position(_, _, _, _)
find_last_segment_position(segs, snake_length, max_index, last_pos) ==
    IF segs = <<>> THEN last_pos
    ELSE IF Head(segs).segment_index >= max_index
            /\ Head(segs).segment_index < snake_length
         THEN find_last_segment_position(Tail(segs), snake_length,
                                         Head(segs).segment_index, Head(segs).pos)
         ELSE find_last_segment_position(Tail(segs), snake_length, max_index, last_pos)

\* NewSegments spawning one segment fewer than the growth amount
NewSegments_OneShort(old_length, new_length, last_segment_pos) ==
    [k \in 1..(new_length - old_length - 1) |->
        [segment_index |-> old_length + k, pos |-> last_segment_pos]]

\* the segments grow_snake spawns for one event: for i in old_length..length
NewSegments(old_length, new_length, last_segment_pos) ==
    [k \in 1..(new_length - old_length) |->
        [segment_index |-> old_length + k - 1, pos |-> last_segment_pos]]

\* one SnakeGrowthEvent of grow_snake; the segment query does not see the
\* segments spawned earlier in the same run
GrowOnce(w, growth_event) ==
    IF w.snake.character_id /= growth_event.character_id THEN w
    ELSE LET old_length == w.snake.length
             new_length == old_length + growth_event.growth_amount
             last_segment_pos ==
                 find_last_segment_position(w.segments, old_length, 0, <<0, 0>>)
         IN  [w EXCEPT !.snake.length = new_length,
                       !.snake.speed = @ + 100,
                       !.new_segments =
                           @ \o NewSegments(old_length, new_length, last_segment_pos)]

\* grow_snake: for growth_event in growth_events.read()
RECURSIVE GrowAll(_, _)
GrowAll(w, events) ==
    IF events = <<>> THEN w
    ELSE GrowAll(GrowOnce(w, Head(events)), Tail(events))

grow_snake(w) == [GrowAll(w, w.growth) EXCEPT !.growth = <<>>]

----------------------------------------------------------------------------
(* src/systems/collision.rs *)

\* the growth_amount match of check_food_collision
GrowthAmount(food_type) ==
    CASE food_type = "Normal" -> 1
      [] food_type = "Bonus" -> 2
      [] food_type = "Speed" -> 1
      [] food_type = "Golden" -> 3

\* the indices of the Food entities on the head's cell
FoodsAt(w) == {k \in 1..Len(w.foods) : w.foods[k].pos = w.snake.pos}

\* check_food_collision: the first food in query order on the head's cell is
\* scored, a growth event is sent, the food's despawn and its effect are
\* queued, and the loop breaks
check_food_collision(w) ==
    IF ~w.snake.is_alive \/ FoodsAt(w) = {} THEN w
    ELSE LET k == CHOOSE i \in FoodsAt(w) : \A j \in FoodsAt(w) : i <= j
             food == w.foods[k]
             base_score == calculate_food_score(food.food_type, level_def.level_number)
             final_score ==
                 (base_score * get_character_multiplier(w.snake.character_id)) \div 100
         IN  [w EXCEPT !.score = @ + final_score,
                       !.growth = Append(@, [character_id |-> w.snake.character_id,
                                             growth_amount |-> GrowthAmount(food.food_type)]),
                       !.eaten = @ \cup {k},
                       !.effects = @ \cup {food.food_type}]

\* the death both lethal arms send: a SnakeDeathEvent and a GameOver transition
\* carrying the current score
Die(w, death_cause) ==
    [w EXCEPT !.deaths = Append(@, death_cause),
              !.events = Append(@, Ev("GameOver", w.score, 0))]

\* LethalWall with the invincibility branch taken for every wall type
LethalWall_AnyType(w, wall) ==
    /\ wall.pos = w.snake.pos
    /\ ~(CharacterAbility(w.snake.character_id) = "WallBreaker"
         /\ wall.wall_type = "Breakable")
    /\ ~w.snake.invincibility

\* a wall of check_wall_collision's loop that neither breaks nor is passed
LethalWall(w, wall) ==
    /\ wall.pos = w.snake.pos
    /\ ~(CharacterAbility(w.snake.character_id) = "WallBreaker"
         /\ wall.wall_type = "Breakable")
    /\ ~(w.snake.invincibility /\ wall.wall_type /= "Boundary")

\* check_wall_collision
check_wall_collision(w) ==
    IF w.snake.is_alive /\ \E wall \in walls : LethalWall(w, wall)
    THEN Die(w, "WallCollision")
    ELSE w

\* check_self_collision skipping only the segment of index 1
check_self_collision_SkipOne(w) ==
    IF w.snake.is_alive
       /\ \E k \in 1..Len(w.segments) :
              /\ ~(w.segments[k].segment_index <= 1)
              /\ w.segments[k].pos = w.snake.pos
    THEN Die(w, "SelfCollision")
    ELSE w

\* check_self_collision: segments of index <= 2 are skipped
check_self_collision(w) ==
    IF w.snake.is_alive
       /\ \E k \in 1..Len(w.segments) :
              /\ ~(w.segments[k].segment_index <= 2)
              /\ w.segments[k].pos = w.snake.pos
    THEN Die(w, "SelfCollision")
    ELSE w

\* check_boundary_collision
check_boundary_collision(w) ==
    LET grid_width == level_def.grid_size[1]
        grid_height == level_def.grid_size[2]
    IN  IF /\ w.snake.is_alive
           /\ "Teleporters" \notin level_def.special_mechanics
           /\ (w.snake.pos[1] < 0 \/ w.snake.pos[1] >= grid_width
               \/ w.snake.pos[2] < 0 \/ w.snake.pos[2] >= grid_height)
        THEN Die(w, "WallCollision")
        ELSE w

\* setup_teleporters: the two portals, spawned with an AudioTrigger at (5, 5)
\* and (grid_width - 5, grid_height - 5); on the model's small grid the inset
\* of 5 cells is 1 cell
setup_teleporters(lv) ==
    IF "Teleporters" \in lv.special_mechanics
    THEN <<[pos |-> <<1, 1>>, entity |-> "PortalA"],
           [pos |-> <<lv.grid_size[1] - 1, lv.grid_size[2] - 1>>, entity |-> "PortalB"]>>
    ELSE <<>>

\* teleporter_query: every entity with a GridPosition and an AudioTrigger and
\* without Snake. spawn_food_at_position gives every Food an AudioTrigger, so
\* the foods are in the query too. A query iterates archetype by archetype in
\* the order the archetypes were created, so the foods come first when a food
\* was spawned earlier in the run of the app than the first portal.
teleporter_query(w, foods_first) ==
    LET food_entities == [k \in 1..Len(w.foods) |->
                             [pos |-> w.foods[k].pos, entity |-> <<"Food", k>>]]
    IN  IF foods_first THEN food_entities \o setup_teleporters(level_def)
                       ELSE setup_teleporters(level_def) \o food_entities

\* handle_teleporter_collision: the head goes to the first entity of the query
\* that is not current_teleporter
handle_teleporter_collision(w, query, current) ==
    LET others == {k \in 1..Len(query) : k /= current}
    IN  IF others = {} THEN w
        ELSE [w EXCEPT !.snake.pos =
                  query[CHOOSE k \in others : \A j \in others : k <= j].pos]

\* check_special_collisions: the first entity of the query on the head's cell
\* is taken as the teleporter entered
check_special_collisions(w, foods_first) ==
    LET query == teleporter_query(w, foods_first)
        hits == {k \in 1..Len(query) : query[k].pos = w.snake.pos}
    IN  IF w.snake.is_alive
           /\ "Teleporters" \in level_def.special_mechanics
           /\ hits /= {}
        THEN handle_teleporter_collision(
                 w, query, CHOOSE k \in hits : \A j \in hits : k <= j)
        ELSE w

\* update_invincibility_effects: remaining_time -= delta, and the removal of
\* the effect is queued once it is <= 0. The declaration of InvincibilityEffect
\* and its default duration are not in the sources, so the frame in which the
\* time runs out is an input of the frame.
update_invincibility_effects(w, expired) ==
    IF w.snake.invincibility /\ expired THEN [w EXCEPT !.expired = TRUE] ELSE w

----------------------------------------------------------------------------
(* src/game_plugin.rs: the Update systems of a frame *)

\* the deferred Commands of the frame: segment spawns, food despawns, the
\* InvincibilityEffect insert of apply_food_effects and then the removal queued
\* by update_invincibility_effects
ApplyCommands(w) ==
    [w EXCEPT !.segments = @ \o w.new_segments,
              !.foods = LET kept == {k \in 1..Len(w.foods) : k \notin w.eaten}
                            Nth(n) == CHOOSE k \in kept :
                                          Cardinality({j \in kept : j < k}) = n - 1
                        IN  [n \in 1..Cardinality(kept) |-> w.foods[Nth(n)]],
              !.snake.invincibility = (@ \/ "Golden" \in w.effects) /\ ~w.expired,
              !.new_segments = <<>>, !.eaten = {}, !.effects = {},
              !.expired = FALSE]

\* The systems GamePlugin::build lists for Playing while Unpaused, in the
\* order of the list (lines 109-138). The collision checks and grow_snake are
\* commented out of the list in this revision, and so is
\* update_invincibility_effects; the model runs them at their place in it.
GameplaySystems(w, key, dt, gs, ps, expired) ==
    ApplyCommands(
      update_invincibility_effects(
        grow_snake(
          check_boundary_collision(
            check_self_collision(
              check_wall_collision(
                check_food_collision(
                  move_snake(
                    consume_buffered_input(
                      handle_input(w, key, dt, gs, ps)), dt)))))), expired))

\* the gameplay systems gated on Playing alone
PlayingUnpaused_AnyPause == gameState = "Playing"

\* run_if(in_state(GameState::Playing).and_then(in_state(PauseState::Unpaused)))
PlayingUnpaused == gameState = "Playing" /\ pauseState = "Unpaused"

\* run_if(in_state(GameState::Playing).and_then(in_state(PauseState::Paused)))
PlayingPaused == gameState = "Playing" /\ pauseState = "Paused"

\* the gameplay and pause systems run once per frame, before or after
\* handle_state_transitions
SystemsTurn ==
    /\ \/ pc = "begin" /\ nextGame = "Unchanged" /\ nextPause = "Unchanged"
       \/ pc = "hst_first"
    /\ pc' = IF pc = "begin" THEN "sys_first" ELSE "begin"

WriteWorld(r) ==
    /\ snake' = r.snake
    /\ segments' = r.segments
    /\ foods' = r.foods
    /\ input_buffer' = r.buf
    /\ input_validation' = r.val
    /\ score_resource' = r.score
    /\ snake_death_events' = r.deaths
    /\ state_events' = r.events
    /\ last_tick_direction' = r.tick

\* a frame's run of the systems gated on Playing and Unpaused
UpdatePlaying ==
    /\ PlayingUnpaused
    /\ SystemsTurn
    /\ snake.speed <= MaxSpeed
    /\ \E key \in Keys, dt \in Deltas,
          expired \in IF snake.invincibility THEN BOOLEAN ELSE {FALSE} :
           \E r \in {GameplaySystems(World, key, dt, gameState, pauseState, expired)} :
               WriteWorld(r)
    /\ UNCHANGED <<gameState, pauseState, nextGame, nextPause, previous_state,
                   progression, level_def, walls, main_loop>>

\* a frame's run of the same systems with check_special_collisions, which
\* GamePlugin does not register, run after the collision checks of the list
UpdatePlayingSpecial ==
    /\ PlayingUnpaused
    /\ SystemsTurn
    /\ \E key \in Keys, dt \in Deltas, foods_first \in BOOLEAN :
           \E r \in {ApplyCommands(
                        grow_snake(
                          check_special_collisions(
                            check_boundary_collision(
                              check_self_collision(
                                check_wall_collision(
                                  check_food_collision(
                                    move_snake(
                                      consume_buffered_input(
                                        handle_input(World, key, dt, gameState,
                                                     pauseState)), dt))))),
                            foods_first)))} :
               WriteWorld(r)
    /\ UNCHANGED <<gameState, pauseState, nextGame, nextPause, previous_state,
                   progression, level_def, walls, main_loop>>

\* a frame's run of the systems gated on Playing and Paused: handle_pause_input
\* (display_pause_menu only draws)
UpdatePaused ==
    /\ PlayingPaused
    /\ SystemsTurn
    /\ \E key \in {"None", "Pause"} :
           \E r \in {handle_pause_input(World, key, gameState, pauseState)} :
               WriteWorld(r)
    /\ UNCHANGED <<gameState, pauseState, nextGame, nextPause, previous_state,
                   progression, level_def, walls, main_loop>>

\* a frame in any other state: the systems GamePlugin registers for GameOver
\* (handle_game_over_input, display_final_score) have empty bodies
UpdateOther ==
    /\ gameState /= "Playing"
    /\ SystemsTurn
    /\ UNCHANGED <<gameState, pauseState, nextGame, nextPause, previous_state,
                   progression, state_events>>
    /\ UNCHANGED worldVars

----------------------------------------------------------------------------
(* The macroquad game of main.rs: Snake (snake.rs), Food (food.rs) and the
   frame loop of main(). Cells are <<x, y>>; times are in hundredths of a
   second *)

Direction == {"Up", "Down", "Left", "Right"}

\* the cells of the grid of grid.rs
Cells == {<<x, y>> : x \in 0..(GRID_WIDTH - 1), y \in 0..(GRID_HEIGHT - 1)}

\* Snake::new
Snake_new ==
    [body |-> <<(<<GRID_WIDTH \div 2, GRID_HEIGHT \div 2>>)>>,
     dir |-> "Right",
     grow_tail |-> FALSE,
     move_timer |-> 0]

\* Snake::get_new_direction, with the key is_key_pressed reports in this frame
Snake_get_new_direction(s, key) ==
    IF key = "Up" /\ s.dir /= "Down" THEN "Up"
    ELSE IF key = "Down" /\ s.dir /= "Up" THEN "Down"
    ELSE IF key = "Left" /\ s.dir /= "Right" THEN "Left"
    ELSE IF key = "Right" /\ s.dir /= "Left" THEN "Right"
    ELSE "None"

\* Snake::handle_input
Snake_handle_input(s, key) ==
    LET new_dir == Snake_get_new_direction(s, key)
    IN  IF new_dir /= "None" THEN [s EXCEPT !.dir = new_dir] ELSE s

\* Snake::move_snake
Snake_move_snake(s) ==
    LET head == s.body[1]
        new_head == CASE s.dir = "Up" -> <<head[1], head[2] - 1>>
                      [] s.dir = "Down" -> <<head[1], head[2] + 1>>
                      [] s.dir = "Left" -> <<head[1] - 1, head[2]>>
                      [] s.dir = "Right" -> <<head[1] + 1, head[2]>>
        inserted == <<new_head>> \o s.body
    IN  IF ~s.grow_tail
        THEN [s EXCEPT !.body = SubSeq(inserted, 1, Len(inserted) - 1)]
        ELSE [s EXCEPT !.body = inserted, !.grow_tail = FALSE]

\* the condition of Snake::update under which the snake moves
Snake_moves(s, delta_time) == s.move_timer + delta_time >= MoveDelay

\* Snake::update
Snake_update(s, key, delta_time) ==
    LET t == Snake_handle_input(s, key)
    IN  IF Snake_moves(s, delta_time)
        THEN Snake_move_snake([t EXCEPT !.move_timer = 0])
        ELSE [t EXCEPT !.move_timer = @ + delta_time]

\* Snake::grow
Snake_grow(s) == [s EXCEPT !.grow_tail = TRUE]

\* Snake::head
Snake_head(s) == s.body[1]

\* Snake::is_dead
Snake_is_dead(s) ==
    LET head == Snake_head(s)
    IN  \/ head[1] < 0 \/ head[1] >= GRID_WIDTH
        \/ head[2] < 0 \/ head[2] >= GRID_HEIGHT
        \/ \E i \in 2..Len(s.body) : s.body[i] = head

\* Snake::is_at
Snake_is_at(s, position) == \E i \in 1..Len(s.body) : s.body[i] = position

\* main() after Snake::new(), LevelTracker::new() and score = 0, inside
\* Food::new, which has set the position to (0, 0) and calls relocate;
\* last_move is history: the direction the latest move_snake used
MainStart ==
    [snake |-> Snake_new,
     food |-> <<0, 0>>,
     in_game |-> FALSE,
     score |-> 0,
     pc |-> "main",
     last_move |-> "None"]

----------------------------------------------------------------------------
(* The session: OnEnter(GameState::Playing) has run spawn_snake *)

\* the food in front of the spawned head, if any
FoodChoices(lv) ==
    {<<>>} \cup {<<[pos |-> Add(SpawnPosition(lv), <<1, 0>>), food_type |-> t]>> :
                     t \in {"Normal", "Bonus"}}

\* no wall (setup_game_level has an empty body) or the boundary walls of
\* load_level_system
WallChoices(lv) == {{}, BoundaryWalls(lv)}

InputBufferDefault == [direction_buffer |-> <<>>, buffer_timer |-> 0]

\* initialize_input_system
InputValidationInit == [last_direction |-> "None", last_input_time |-> 0]

NoWorld ==
    /\ level_def = "None"
    /\ walls = {}
    /\ foods = <<>>
    /\ snake = "None"
    /\ segments = <<>>
    /\ input_buffer = InputBufferDefault
    /\ input_validation = InputValidationInit
    /\ score_resource = 0
    /\ snake_death_events = <<>>
    /\ last_tick_direction = "None"
    /\ main_loop = MainStart

Init ==
    /\ gameState = "Playing"
    /\ pauseState = "Unpaused"
    /\ nextGame = "Unchanged"
    /\ nextPause = "Unchanged"
    /\ previous_state = "None"
    /\ progression = GameProgressionDefault
    /\ state_events = <<>>
    /\ pc = "begin"
    /\ \E n \in ModelLevels :
        /\ level_def = LevelDefinition(n)
        /\ walls \in WallChoices(LevelDefinition(n))
        /\ foods \in FoodChoices(LevelDefinition(n))
        /\ snake = SpawnedSnake(LevelDefinition(n), 1)
        /\ segments = spawn_initial_segments(SpawnPosition(LevelDefinition(n)), 3)
    /\ input_buffer = InputBufferDefault
    /\ input_validation = InputValidationInit
    /\ score_resource = 0
    /\ snake_death_events = <<>>
    /\ last_tick_direction = "None"
    /\ main_loop = MainStart

Next ==
    \/ ApplyStateTransitions
    \/ handle_state_transitions
    \/ UpdatePlaying
    \/ UpdatePaused
    \/ UpdateOther

Spec == Init /\ [][Next]_vars

----------------------------------------------------------------------------
(* A session on a level with a wall in the snake's way *)

\* level, character and the type of the wall two cells ahead of the spawned
\* head: an Obstacle of level 2 (BasicObstacles), a Breakable wall of level 5
\* (BreakableWalls) or a Boundary wall
ArenaChoices ==
    {<<2, 1, "Obstacle">>, <<2, 1, "Boundary">>,
     <<5, 3, "Breakable">>, <<5, 1, "Breakable">>}

\* nothing, a Golden food, or a Normal and a Bonus food on the same cell (the
\* occupied positions of spawn_food_system do not include the foods), on the
\* cell in front of the spawned head
ArenaFoods(lv) ==
    LET cell == Add(SpawnPosition(lv), <<1, 0>>)
    IN  {<<>>,
         <<[pos |-> cell, food_type |-> "Golden"]>>,
         <<[pos |-> cell, food_type |-> "Normal"],
           [pos |-> cell, food_type |-> "Bonus"]>>}

InitArena ==
    /\ gameState = "Playing"
    /\ pauseState = "Unpaused"
    /\ nextGame = "Unchanged"
    /\ nextPause = "Unchanged"
    /\ previous_state = "None"
    /\ progression = GameProgressionDefault
    /\ state_events = <<>>
    /\ pc = "begin"
    /\ \E c \in ArenaChoices :
        /\ level_def = LevelDefinition(c[1])
        /\ walls = {[pos |-> Add(SpawnPosition(LevelDefinition(c[1])), <<2, 0>>),
                     wall_type |-> c[3]]}
        /\ foods \in ArenaFoods(LevelDefinition(c[1]))
        /\ snake = SpawnedSnake(LevelDefinition(c[1]), c[2])
        /\ segments = spawn_initial_segments(SpawnPosition(LevelDefinition(c[1])), 3)
    /\ input_buffer = InputBufferDefault
    /\ input_validation = InputValidationInit
    /\ score_resource = 0
    /\ snake_death_events = <<>>
    /\ last_tick_direction = "None"
    /\ main_loop = MainStart

SpecArena == InitArena /\ [][Next]_vars

----------------------------------------------------------------------------
(* A session of character 2, Electric Eel (SpeedBoost), with no food *)

InitSpeed ==
    /\ gameState = "Playing"
    /\ pauseState = "Unpaused"
    /\ nextGame = "Unchanged"
    /\ nextPause = "Unchanged"
    /\ previous_state = "None"
    /\ progression = GameProgressionDefault
    /\ state_events = <<>>
    /\ pc = "begin"
    /\ \E n \in ModelLevels :
        /\ level_def = LevelDefinition(n)
        /\ walls = {}
        /\ foods = <<>>
        /\ snake = SpawnedSnake(LevelDefinition(n), 2)
        /\ segments = spawn_initial_segments(SpawnPosition(LevelDefinition(n)), 3)
    /\ input_buffer = InputBufferDefault
    /\ input_validation = InputValidationInit
    /\ score_resource = 0
    /\ snake_death_events = <<>>
    /\ last_tick_direction = "None"
    /\ main_loop = MainStart

SpecSpeed == InitSpeed /\ [][Next]_vars

----------------------------------------------------------------------------
(* The InputBuffer under its three operations, each taken on its own *)

\* the frame times of the buffer's clean-up timer, in tenths of a second
BufferDeltas == {1, 2}

DirectionKeys == {"Up", "Down", "Left", "Right"}

\* add_direction_to_buffer(direction, input_buffer)
AddDirectionToBuffer ==
    /\ \E key \in DirectionKeys :
           WriteWorld([World EXCEPT !.buf.direction_buffer =
                          add_direction_to_buffer(arrow_keys_to_direction(key), @)])
    /\ UNCHANGED <<gameState, pauseState, nextGame, nextPause, previous_state,
                   progression, pc, level_def, walls, main_loop>>

\* update_input_buffer(time, input_buffer)
UpdateInputBuffer ==
    /\ \E dt \in BufferDeltas : WriteWorld(update_input_buffer(World, dt))
    /\ UNCHANGED <<gameState, pauseState, nextGame, nextPause, previous_state,
                   progression, pc, level_def, walls, main_loop>>

\* consume_buffered_input
ConsumeBufferedInput ==
    /\ input_buffer.direction_buffer /= <<>>
    /\ WriteWorld(consume_buffered_input(World))
    /\ UNCHANGED <<gameState, pauseState, nextGame, nextPause, previous_state,
                   progression, pc, level_def, walls, main_loop>>

NextBuffer ==
    \/ AddDirectionToBuffer
    \/ UpdateInputBuffer
    \/ ConsumeBufferedInput

SpecBuffer == Init /\ [][NextBuffer]_vars

----------------------------------------------------------------------------
(* A session in which check_special_collisions runs in every frame *)

NextSpecial ==
    \/ ApplyStateTransitions
    \/ handle_state_transitions
    \/ UpdatePlayingSpecial
    \/ UpdatePaused
    \/ UpdateOther

SpecSpecial == Init /\ [][NextSpecial]_vars

----------------------------------------------------------------------------
InitStates ==
    /\ gameState = "HomeScreen"
    /\ pauseState = "Unpaused"
    /\ nextGame = "Unchanged"
    /\ nextPause = "Unchanged"
    /\ previous_state = "None"
    /\ progression = GameProgressionDefault
    /\ state_events = <<>>
    /\ pc = "begin"
    /\ NoWorld

NextStates ==
    \/ UserInput
    \/ SendEvent
    \/ ApplyStateTransitions

SpecStates == InitStates /\ [][NextStates]_vars

----------------------------------------------------------------------------
(* The frame loop of main() in main.rs. The level of LevelTracker selects the
   theme and the argument of Snake::update_speed, which snake.rs does not
   define: move_delay keeps the value of Snake::new *)

\* get_frame_time(), in hundredths of a second
FrameTimes == {8, 15}

MainKeys == {"None"} \cup Direction

BevyUnchanged ==
    UNCHANGED <<gameState, pauseState, nextGame, nextPause, previous_state,
                progression, state_events, pc, level_def, walls, foods, snake,
                segments, input_buffer, input_validation, score_resource,
                snake_death_events, last_tick_direction>>

\* one iteration of the loop of Food::relocate, called by Food::new in main()
\* ("main"), by Food::new after Space ("restart") or after the head reached
\* the food ("eat"); on a free cell the loop breaks and the caller goes on
FoodRelocate ==
    /\ main_loop.pc \in {"main", "restart", "eat"}
    /\ \E pos \in Cells :
           IF ~Snake_is_at(main_loop.snake, pos)
           THEN main_loop' =
                    [main_loop EXCEPT
                        !.food = pos,
                        !.pc = "loop",
                        !.in_game = IF main_loop.pc = "restart" THEN TRUE ELSE @,
                        !.score = CASE main_loop.pc = "restart" -> 0
                                    [] main_loop.pc = "eat" -> @ + 1
                                    [] OTHER -> @]
           ELSE UNCHANGED main_loop
    /\ BevyUnchanged

\* a frame of the title screen in which Space is pressed
MainMenuFrame ==
    /\ main_loop.pc = "loop"
    /\ ~main_loop.in_game
    /\ main_loop' = [main_loop EXCEPT !.snake = Snake_new,
                                      !.food = <<0, 0>>,
                                      !.last_move = "None",
                                      !.pc = "restart"]
    /\ BevyUnchanged

\* a frame of the game: snake.update, snake.is_dead, and the head on the food
MainGameFrame ==
    /\ main_loop.pc = "loop"
    /\ main_loop.in_game
    /\ \E key \in MainKeys, delta_time \in FrameTimes :
           LET updated == Snake_update(main_loop.snake, key, delta_time)
               eats == Snake_head(updated) = main_loop.food
           IN  main_loop' =
                   [main_loop EXCEPT
                       !.snake = IF eats THEN Snake_grow(updated) ELSE updated,
                       !.in_game = ~Snake_is_dead(updated),
                       !.pc = IF eats THEN "eat" ELSE "loop",
                       !.last_move =
                           IF Snake_moves(main_loop.snake, delta_time)
                           THEN updated.dir ELSE @]
    /\ BevyUnchanged

NextMain ==
    \/ FoodRelocate
    \/ MainMenuFrame
    \/ MainGameFrame

\* the loop of main() and the loop of Food::relocate keep running
SpecMain == InitStates /\ [][NextMain]_vars /\ WF_vars(NextMain)

----------------------------------------------------------------------------
(* Claims about the state machine, checked under SpecStates *)

StartGameEvents == {e \in StateTransitionEvent : e.type = "StartGame"}

\* C7: whenever the handler reads a StartGame event, in any state, the state
\* pair it requests is (Playing, Unpaused).
C7_StartGameLeadsToPlaying ==
    [][(\E e \in StartGameEvents : ReadEvents(<<e>>))
        => (nextGame' = "Playing" /\ nextPause' = "Unpaused")]_vars

\* C8: no reachable top-level state is a dead end: in every reachable state
\* some input handler can still send an event, so that the user can go on
\* towards (Playing, Unpaused).
C8_NoDeadEnd == UserEvents(gameState, pauseState) /= {}

\* C10: no step of the state machine lowers a per-level best score or
\* max_unlocked_level.
C10_ScoresNeverDecrease ==
    [][/\ \A i \in 0..(TotalLevels - 1) :
              progression'.level_scores[i] >= progression.level_scores[i]
       /\ progression'.max_unlocked_level >= progression.max_unlocked_level]_vars

\* C10 witness: a session was restarted (Loading after a StartGame or
\* RestartLevel) while a best score and a raised max_unlocked_level are stored.
C10_Witness ==
    /\ gameState = "Loading"
    /\ progression.level_scores[0] = MaxScore
    /\ progression.max_unlocked_level > 1

GameOverEvents == {e \in StateTransitionEvent : e.type = "GameOver"}

\* C11: a GameOver{final_score} read while Playing requests (GameOver,
\* Unpaused) and leaves in the slot of the current level the larger of the
\* stored value and final_score: the slot changes only if final_score exceeds
\* it, and every other slot is unchanged.
C11_GameOverKeepsBestScore ==
    [][\A e \in GameOverEvents :
         (gameState = "Playing" /\ ReadEvents(<<e>>))
           => /\ nextGame' = "GameOver"
              /\ nextPause' = "Unpaused"
              /\ \A i \in 0..(TotalLevels - 1) :
                    progression'.level_scores[i] =
                        IF i = progression.current_level - 1
                           /\ e.a > progression.level_scores[i]
                        THEN e.a
                        ELSE progression.level_scores[i]]_vars

\* C11 witness: a GameOver has been read while Playing and the slot of the
\* current level holds a score
C11_Witness ==
    /\ gameState = "Playing"
    /\ nextGame = "GameOver"
    /\ nextPause = "Unpaused"
    /\ progression.current_level \in 1..TotalLevels
    /\ progression.level_scores[progression.current_level - 1] = MaxScore

\* C12: an EndCutscene read in the cutscene that follows the LevelComplete of
\* the current level requests Credits if that level is the last one and
\* Playing if more levels remain.
C12_EndCutsceneAfterLastLevel ==
    [][(/\ gameState = "Cutscene"
        /\ previous_state = "LevelComplete"
        /\ progression.max_unlocked_level > progression.current_level
        /\ ReadEvents(<<Ev("EndCutscene", 0, 0)>>))
        => nextGame' = IF progression.current_level >= TotalLevels
                       THEN "Credits" ELSE "Playing"]_vars

\* C13: in every reachable state selected_character is within 1..4 and
\* current_level within 1..10.
C13_ProgressionInRange ==
    /\ progression.selected_character \in 1..4
    /\ progression.current_level \in 1..TotalLevels

\* C22: whenever the top-level state is not Playing the pause sub-state is
\* Unpaused, and every step that enters Playing leaves the pair at
\* (Playing, Unpaused).
C22_PauseOnlyInsidePlaying ==
    [][/\ gameState' /= "Playing" => pauseState' = "Unpaused"
       /\ (gameState /= "Playing" /\ gameState' = "Playing")
            => pauseState' = "Unpaused"]_vars

----------------------------------------------------------------------------
(* Claims about a session, checked under Spec *)

\* the step contains a movement tick: the head changed cell
Ticked == snake'.pos /= snake.pos

InGrid(pos) ==
    /\ pos[1] >= 0 /\ pos[1] < level_def.grid_size[1]
    /\ pos[2] >= 0 /\ pos[2] < level_def.grid_size[2]

\* the position held by the segment of index i, the head being index 0
PositionOfIndex(i) ==
    IF i = 0 THEN snake.pos
    ELSE (CHOOSE k \in 1..Len(segments) : segments[k].segment_index = i) .pos

\* C1: on every movement tick each body segment i >= 1 ends the tick at the
\* position segment i - 1 held before the tick, segment 1 taking the head's
\* position before the move.
C1_SegmentsFollowHead ==
    [][Ticked =>
         \A k \in 1..Len(segments) :
             segments[k].segment_index < snake.length
                 => segments'[k].pos = PositionOfIndex(segments[k].segment_index - 1)]_vars

C3_NoReversalReachesTick ==
    [][(Ticked /\ last_tick_direction /= "None")
        => last_tick_direction' /= get_opposite_direction(last_tick_direction)]_vars

\* C4: a frame whose collision checks find a lethal result leaves the alive
\* flag false and sends exactly one Death event.
C4_LethalOutcomeKillsOnce ==
    [][snake_death_events' /= snake_death_events
        => /\ ~snake'.is_alive
           /\ Len(snake_death_events') = Len(snake_death_events) + 1]_vars

Wrap == "Teleporters" \in level_def.special_mechanics

\* C5: without wrap, the frame in which the head leaves the grid sends exactly
\* one Death{WallCollision} and no later frame sends another for it; with wrap,
\* a tick outward from an edge sends no Death and leaves the head in the grid.
C5_EdgeExit ==
    [][/\ (~Wrap /\ InGrid(snake.pos) /\ ~InGrid(snake'.pos))
            => snake_death_events' = Append(snake_death_events, "WallCollision")
       /\ (~Wrap /\ ~InGrid(snake.pos))
            => snake_death_events' = snake_death_events
       /\ (Wrap /\ Ticked /\ ~InGrid(Add(snake.pos, last_tick_direction')))
            => /\ snake_death_events' = snake_death_events
               /\ InGrid(snake'.pos)]_vars

\* C6: once a Death event has been sent, no movement tick changes the head or
\* the segments.
C6_NoTickAfterDeath ==
    [][snake_death_events /= <<>>
        => /\ snake'.pos = snake.pos
           /\ SubSeq(segments', 1, Len(segments)) = segments]_vars

\* C9: a PauseGame read on its own while (Playing, Unpaused) requests the pause
\* sub-state alone and the next StateTransition schedule makes the pair
\* (Playing, Paused); no step taken while (Playing, Paused), nor the step that
\* changes the pause sub-state, changes the snake (head, direction, move
\* accumulator) or the segments, so that ticking resumes from the accumulator
\* value held when the pause began.
C9_PauseFreezesSnake ==
    [][/\ (/\ PlayingUnpaused
           /\ state_events = <<Ev("PauseGame", 0, 0)>>
           /\ state_events' = <<>>)
            => (nextGame' = "Unchanged" /\ nextPause' = "Paused")
       /\ (PlayingUnpaused /\ nextGame = "Unchanged" /\ nextPause = "Paused"
           /\ pauseState' /= pauseState)
            => (gameState' = "Playing" /\ pauseState' = "Paused")
       /\ (PlayingPaused \/ pauseState' /= pauseState)
            => (snake' = snake /\ segments' = segments)]_vars

\* C9 witness: the game is paused with time on the move accumulator, a pause
\* frame has run and a ResumeGame has been handled
C9_Witness ==
    /\ PlayingPaused
    /\ snake.move_timer > 0
    /\ nextPause = "Unpaused"

\* the direction of the last input handle_gameplay_input accepted, the spawn
\* direction before any input was accepted
LastValidatedDirection(val) ==
    IF val.last_direction = "None" THEN <<1, 0>> ELSE val.last_direction

Abs(n) == IF n < 0 THEN -n ELSE n

NoLethalOutcome == snake_death_events' = snake_death_events

NewDeathCauses ==
    {snake_death_events'[k] :
        k \in (Len(snake_death_events) + 1)..Len(snake_death_events')}

\* C15: on a level that declares Teleporters, a tick maps a head coordinate of
\* -1 to size - 1 and a coordinate of size to 0 (the coordinate modulo the
\* grid size), the boundary check sends no Death for it (with no wall in the
\* level no Death{WallCollision} is sent at all), and the head lies inside the
\* grid after every tick.
C15_WrapKeepsHeadInGrid ==
    [][(Wrap /\ Ticked)
        => LET width == level_def.grid_size[1]
               height == level_def.grid_size[2]
               x == snake.pos[1] + last_tick_direction'[1]
               y == snake.pos[2] + last_tick_direction'[2]
           IN  /\ snake'.pos[1] = (x + width) % width
               /\ snake'.pos[2] = (y + height) % height
               /\ x = -1 => snake'.pos[1] = width - 1
               /\ x = width => snake'.pos[1] = 0
               /\ y = -1 => snake'.pos[2] = height - 1
               /\ y = height => snake'.pos[2] = 0
               /\ InGrid(snake'.pos)
               /\ walls = {} => "WallCollision" \notin NewDeathCauses]_vars

\* C15 witness: a tick to the left from column 0 has put the head on the last
\* column of a level with Teleporters and no walls, with no Death sent
C15_Witness ==
    /\ Wrap
    /\ walls = {}
    /\ last_tick_direction /= "None"
    /\ last_tick_direction[1] = -1
    /\ snake.pos[1] = level_def.grid_size[1] - 1
    /\ snake_death_events = <<>>

\* C23: the collision checks run once per completed movement tick, after the
\* movement, and not in a frame without a movement tick: a Death is sent only
\* by a step in which the head moved, and a step sends at most one.
C23_CollisionOncePerTick ==
    [][snake_death_events' /= snake_death_events
        => /\ Ticked
           /\ Len(snake_death_events') = Len(snake_death_events) + 1]_vars

\* C24: a movement tick takes one grid step and leaves in the accumulator the
\* excess of the accumulated time over the tick interval 1 / speed: for the
\* frame time dt of the step, move_timer' = move_timer + dt - 1 / speed
\* (both sides multiplied by the speed to stay in whole numbers).
C24_TickKeepsExcess ==
    [][Ticked
        => \E dt \in Deltas :
               /\ TimeToMove(snake.move_timer + dt, snake.speed)
               /\ snake'.move_timer * snake.speed =
                      (snake.move_timer + dt) * snake.speed - 10 * 1000]_vars

----------------------------------------------------------------------------
(* Claims about walls, foods and the body, checked under SpecArena *)

\* the walls on the cell the head is on after the step
WallsEntered == {wall \in walls : wall.pos = snake'.pos}

\* C16: when a tick puts the head of a WallBreaker character on the cell of a
\* Breakable wall, the wall is removed, the snake stays alive and no Death is
\* sent.
C16_BreakableWallRemoved ==
    [][(Ticked
        /\ CharacterAbility(snake.character_id) = "WallBreaker"
        /\ WallsEntered /= {}
        /\ \A wall \in WallsEntered : wall.wall_type = "Breakable")
        => /\ \A wall \in walls' : wall.pos /= snake'.pos
           /\ snake'.is_alive
           /\ NoLethalOutcome]_vars

\* the walls on the head's new cell that the character does not break
WallsNotBroken ==
    {wall \in WallsEntered :
        ~(CharacterAbility(snake.character_id) = "WallBreaker"
          /\ wall.wall_type = "Breakable")}

IndicesEntered ==
    {segments'[k].segment_index : k \in {j \in 1..Len(segments) :
                                            segments'[j].pos = snake'.pos}}

FoodsEntered == {k \in 1..Len(foods) : foods[k].pos = snake'.pos}

\* C19: foods are consumed only by a movement tick, and a tick that puts the
\* head on a food cell consumes exactly one food of the cell, removes it and
\* grows the snake's length by 1 for Normal and Speed, 2 for Bonus and 3 for
\* Golden food.
C19_OneFoodPerTick ==
    [][/\ Len(foods') /= Len(foods) => Ticked
       /\ (Ticked /\ FoodsEntered /= {})
            => /\ Len(foods') = Len(foods) - 1
               /\ \E k \in FoodsEntered :
                     snake'.length - snake.length =
                         CASE foods[k].food_type \in {"Normal", "Speed"} -> 1
                           [] foods[k].food_type = "Bonus" -> 2
                           [] foods[k].food_type = "Golden" -> 3]_vars

\* the wall is passed by a branch whose mechanic the level declares
PassedByDeclaredMechanic(wall) ==
    \/ /\ "WallBreaking" \in level_def.special_mechanics
       /\ CharacterAbility(snake.character_id) = "WallBreaker"
       /\ wall.wall_type = "Breakable"
    \/ /\ "Invincibility" \in level_def.special_mechanics
       /\ snake.invincibility
       /\ wall.wall_type /= "Boundary"

\* C20: on a level whose special_mechanics do not declare a mechanic, the
\* mechanic's branch does nothing: without Teleporters a tick never wraps the
\* head, and a wall on the head's new cell is passed only by wall breaking on
\* a level with WallBreaking or by invincibility on a level with
\* Invincibility; any other wall sends Death{WallCollision}.
C20_UndeclaredMechanicIsNoOp ==
    [][Ticked
        => /\ ~Wrap => /\ snake'.pos[1] = snake.pos[1] + last_tick_direction'[1]
                       /\ snake'.pos[2] = snake.pos[2] + last_tick_direction'[2]
           /\ (\E wall \in WallsEntered : ~PassedByDeclaredMechanic(wall))
                => "WallCollision" \in NewDeathCauses]_vars

----------------------------------------------------------------------------
(* Claims about the teleporter pair, checked under SpecSpecial *)

\* the cell of the other portal of the pair
OtherPortal(pos) ==
    LET portals == setup_teleporters(level_def)
    IN  IF pos = portals[1].pos THEN portals[2].pos ELSE portals[1].pos

\* C21: on a level with Teleporters, whenever the head is on the cell of one
\* portal of the pair when check_special_collisions runs, it is moved to the
\* cell of the other portal, whatever the order of the query, and no Death is
\* sent.
C21_TeleportToOtherPortal ==
    (Wrap /\ PlayingUnpaused
     /\ \E k \in 1..2 : setup_teleporters(level_def)[k].pos = snake.pos)
        => \A foods_first \in BOOLEAN :
               LET r == check_special_collisions(World, foods_first)
               IN  /\ r.snake.pos = OtherPortal(snake.pos)
                   /\ r.deaths = snake_death_events

----------------------------------------------------------------------------
(* Claims about the snake's speed, checked under SpecSpeed *)

\* C25: with no food eaten and no temporary boost, the speed of a SpeedBoost
\* character is the level's starting speed with the passive multiplier 1.2
\* applied at most once: the starting speed itself or 1.2 times it, never a
\* product of several passive multipliers.
C25_PassiveMultiplierAppliedOnce ==
    CharacterAbility(snake.character_id) = "SpeedBoost"
        => \/ snake.speed = level_def.starting_speed
           \/ snake.speed * 10 = level_def.starting_speed * 12

----------------------------------------------------------------------------
(* Claims about the input buffer, checked under SpecBuffer *)

\* C26: buffering a direction and then the same direction again, with nothing
\* consumed in between, leaves the buffer as it was after the first: it ends
\* with a single entry for the direction, and no two neighbouring entries of
\* the buffer are ever equal.
C26_SameDirectionBufferedOnce ==
    /\ \A key \in DirectionKeys :
           LET d == arrow_keys_to_direction(key)
               once == add_direction_to_buffer(d, input_buffer.direction_buffer)
               twice == add_direction_to_buffer(d, once)
           IN  /\ twice = once
               /\ twice[Len(twice)] = d
               /\ Len(twice) > 1 => twice[Len(twice) - 1] /= d
    /\ \A k \in 1..(Len(input_buffer.direction_buffer) - 1) :
           input_buffer.direction_buffer[k] /= input_buffer.direction_buffer[k + 1]

\* C26 witness: a full buffer whose newest entry is Up, to which Up is buffered
\* again
C26_Witness ==
    /\ Len(input_buffer.direction_buffer) = MaxBufferSize
    /\ input_buffer.direction_buffer[MaxBufferSize] = <<0, 1>>

\* C27: the buffer never holds more than max_buffer_size = 3 entries; pushing
\* onto a full buffer drops the oldest entry; and entries leave the buffer
\* from the front, the direction given to the snake being the oldest entry.
C27_BufferBoundedAndFifo ==
    [][/\ Len(input_buffer'.direction_buffer) <= MaxBufferSize
       /\ Len(input_buffer'.direction_buffer) < Len(input_buffer.direction_buffer)
            => input_buffer'.direction_buffer = Tail(input_buffer.direction_buffer)
       /\ (Len(input_buffer.direction_buffer) = MaxBufferSize
           /\ input_buffer'.direction_buffer /= input_buffer.direction_buffer
           /\ Len(input_buffer'.direction_buffer) = MaxBufferSize)
            => /\ input_buffer'.direction_buffer[1] = input_buffer.direction_buffer[2]
               /\ input_buffer'.direction_buffer[2] = input_buffer.direction_buffer[3]
       /\ snake'.direction /= snake.direction
            => /\ snake'.direction = Head(input_buffer.direction_buffer)
               /\ input_buffer'.direction_buffer = Tail(input_buffer.direction_buffer)]_vars

\* C27 witness: the buffer is full and the snake has been given a buffered
\* direction
C27_Witness ==
    /\ Len(input_buffer.direction_buffer) = MaxBufferSize
    /\ snake.direction = <<0, -1>>

----------------------------------------------------------------------------
(* GameProgression's scores, checked under SpecStates *)

\* C29: in every state the handler leaves GameProgression in, total_score is
\* the sum of the ten entries of level_scores
C29_TotalIsSumOfLevelScores ==
    progression.total_score =
        progression.level_scores[0] + progression.level_scores[1]
        + progression.level_scores[2] + progression.level_scores[3]
        + progression.level_scores[4] + progression.level_scores[5]
        + progression.level_scores[6] + progression.level_scores[7]
        + progression.level_scores[8] + progression.level_scores[9]

\* a GameOver and a LevelComplete have stored scores for two levels
C29_Witness ==
    /\ progression.level_scores[0] = MaxScore
    /\ progression.level_scores[TotalLevels - 1] = MaxScore
    /\ progression.total_score = 2 * MaxScore

----------------------------------------------------------------------------
(* Claims about the macroquad game, checked under SpecMain *)

Relocating == main_loop.pc \in {"main", "restart", "eat"}

\* C28: a search for a food position always terminates: a search that has
\* started ends, with a position or with none
C28_FoodSearchTerminates == Relocating ~> ~Relocating

Opposite(d) ==
    CASE d = "Up" -> "Down" [] d = "Down" -> "Up"
      [] d = "Left" -> "Right" [] d = "Right" -> "Left"

\* C30: the direction a move uses is never the reverse of the direction the
\* previous move used, so no move of a snake of two or more segments puts the
\* head on the segment that was directly behind it and is then reported by
\* is_dead
C30_MoveNeverReverses ==
    [][(main_loop'.snake.body /= main_loop.snake.body /\ main_loop.pc = "loop"
        /\ main_loop.in_game)
       => /\ main_loop.last_move /= "None"
             => main_loop'.last_move /= Opposite(main_loop.last_move)
          /\ ~(/\ Len(main_loop.snake.body) >= 2
               /\ Snake_head(main_loop'.snake) = main_loop.snake.body[2]
               /\ Snake_is_dead(main_loop'.snake))]_vars

====
